---------------------------- MODULE Spec2Model ----------------------------
(***************************************************************************)
(* A model of the cuDNN backend layer classes of src/neural/cuda/layers.h  *)
(* (BaseLayer, ConvLayer, SoftMaxLayer, BNLayer, FCLayer, SELayer,         *)
(* GlobalAvgPoolLayer, GlobalScaleLayer).                                  *)
(*                                                                         *)
(* The header holds the classes' state (their fields and the fields'       *)
(* default initialisers), the signatures of their operations and the       *)
(* inline bodies of GetC, GetH, GetW and GetOutputSize; with them it fixes *)
(* the operations the classes declare implicitly (copy construction, copy  *)
(* assignment, the non-virtual ~BaseLayer).  The bodies of the ctors, of   *)
(* the declared destructors, of LoadWeights and of Eval are not there:     *)
(* they are modelled from the design specification, in its words and no    *)
(* further.                                                                *)
(***************************************************************************)
EXTENDS Integers, Sequences, FiniteSets

VARIABLES
    dtype,      \* the DataType the layer templates are instantiated with
    layers,     \* the layer objects, in construction order
    ctorShape,  \* per layer, the (C, H, W) its constructor handed to BaseLayer
    devmem,     \* device memory: allocated parameter buffer -> its contents
    tensors,    \* the caller's tensor buffers: buffer -> contents
    last,       \* the most recently ended call and how it ended
    sizeq       \* the last GetOutputSize call: its arguments and its result

vars == <<dtype, layers, ctorShape, devmem, tensors, last, sizeq>>

---------------------------------------------------------------------------
(* Machine integers.  A size_t is SizeTBytes little-endian bytes; an int   *)
(* converted to size_t is sign-extended.                                   *)

SizeTBytes == 8
IntBytes == 4
WideBytes == 24

Pow256(k) == 256 ^ k

\* The conversion int -> size_t of the usual arithmetic conversions.
IntToSizeT(i) ==
    [k \in 1..SizeTBytes |->
        IF k <= IntBytes THEN (i \div Pow256(k - 1)) % 256
        ELSE IF i < 0 THEN 255 ELSE 0]

\* The same int as an unbounded (WideBytes wide) natural number; i >= 0.
IntToWide(i) ==
    [k \in 1..WideBytes |->
        IF k <= IntBytes THEN (i \div Pow256(k - 1)) % 256 ELSE 0]

Limb(a, k) == IF k \in DOMAIN a THEN a[k] ELSE 0

RECURSIVE ConvSum(_, _, _, _)
ConvSum(a, b, k, i) ==
    IF i > k THEN 0
    ELSE Limb(a, i) * Limb(b, k + 1 - i) + ConvSum(a, b, k, i + 1)

RECURSIVE MulLimbs(_, _, _, _, _)
MulLimbs(a, b, k, carry, w) ==
    IF k > w THEN <<>>
    ELSE LET s == ConvSum(a, b, k, 1) + carry
         IN  <<s % 256>> \o MulLimbs(a, b, k + 1, s \div 256, w)

\* Unsigned multiplication in a w-byte type: the product modulo 2^(8w).
MulMod(a, b, w) == MulLimbs(a, b, 1, 0, w)

Extend(a, w) == [k \in 1..w |-> Limb(a, k)]
Truncate(a, w) == [k \in 1..w |-> a[k]]
FitsIn(a, w) == \A k \in DOMAIN a : k > w => a[k] = 0

\* sizeof(DataType): float is 4 bytes, half is 2.
SizeOf(t) == IF t = "half" THEN 2 ELSE 4

DataTypes == {"float", "half"}

---------------------------------------------------------------------------
(* BaseLayer *)

GetC(l) == l.C
GetH(l) == l.H
GetW(l) == l.W

\* A plausible slip: the int product N * C * H * W formed first, in int, and
\* only then widened.
GetOutputSizeIntProduct(t, l, N) ==
    LET p == MulMod(MulMod(MulMod(IntToSizeT(N), IntToSizeT(l.C), IntBytes),
                           IntToSizeT(l.H), IntBytes),
                    IntToSizeT(l.W), IntBytes)
        signed == [k \in 1..SizeTBytes |->
                      IF k <= IntBytes THEN p[k]
                      ELSE IF p[IntBytes] >= 128 THEN 255 ELSE 0]
    IN  MulMod(IntToSizeT(SizeOf(t)), signed, SizeTBytes)

\* sizeof(DataType) * N * C * H * W: left to right, every operand converted
\* to size_t, every product taken modulo 2^64.
GetOutputSize(t, l, N) ==
    MulMod(MulMod(MulMod(MulMod(IntToSizeT(SizeOf(t)), IntToSizeT(N), SizeTBytes),
                         IntToSizeT(l.C), SizeTBytes),
                  IntToSizeT(l.H), SizeTBytes),
           IntToSizeT(l.W), SizeTBytes)

---------------------------------------------------------------------------
(* Bounds of the model *)

MaxLayers == 3      \* layer objects in a pipeline
MaxBatch == 2       \* batch sizes 1..MaxBatch
NumBufs == 2        \* tensor buffers the caller owns (double buffering)

Kinds == {"Conv", "SoftMax", "BN", "FC", "SE", "GlobalAvgPool", "GlobalScale"}
Shapes == {<<2, 2, 2>>, <<3, 1, 1>>}
HostData == {"hostA", "hostB"}
Algos == {"gemm", "winograd"}

\* The activation selector of FCLayer as <<relu, tanh, sigmoid>>: none,
\* rectifying, hyperbolic-tangent or logistic-sigmoid.
Activations ==
    {<<FALSE, FALSE, FALSE>>, <<TRUE, FALSE, FALSE>>,
     <<FALSE, TRUE, FALSE>>, <<FALSE, FALSE, TRUE>>}

---------------------------------------------------------------------------
(* The classes' fields *)

\* A pointer is nullptr or the address <<layer, field>> of a buffer that was
\* allocated for that field of that layer.
NullPtr == <<0, "nullptr">>

\* What a parameter pointer holds unless something is assigned to it: the
\* default member initialisers "= nullptr".
DefaultPtr == NullPtr

\* conv_algo_ is declared without initialiser: after construction it holds
\* what the constructor assigned, when it assigns, and else whatever its
\* storage held, a value of an algorithm or a value of none.
NotAnAlgo == "not_an_algorithm"
Indeterminate == Algos \cup {NotAnAlgo}

\* The parameter pointers each class declares, in the order LoadWeights
\* takes their host arrays.
ParamFields(kind) ==
    CASE kind = "Conv" -> <<"weights", "biases">>
      [] kind = "BN"   -> <<"means_", "variances_">>
      [] kind = "FC"   -> <<"weights_", "biases_">>
      [] kind = "SE"   -> <<"w1_", "b1_", "w2_", "b2_", "bPrev_">>
      [] OTHER         -> <<>>

Range(s) == {s[k] : k \in DOMAIN s}

HasLoadWeights(kind) == kind \in {"Conv", "BN", "FC", "SE"}

\* The parameters a layer uses: the optional bias of ConvLayer and FCLayer
\* and the optional previous-layer bias of SELayer only when configured.
Uses(l, f) ==
    CASE f \in {"biases", "biases_"} -> l.use_bias_
      [] f = "bPrev_"                -> l.addPrevLayerBias_
      [] OTHER                       -> TRUE

ToLoad(l) == SelectSeq(ParamFields(l.kind), LAMBDA f : Uses(l, f))

\* The address of the buffer allocated for field f of the i-th layer object.
Addr(i, f) == <<i, f>>

\* What a buffer holds between its allocation and the transfer of values.
Unloaded == "unloaded"

\* BaseLayer(c, h, w, ip) and the fields a derived class adds, the
\* parameter pointers at their default initialiser; fields a class does not
\* have hold a fixed filler.  conv_algo_ holds `held`; alive says the object
\* exists.
NewLayer(kind, ip, shape, relu, bias, tanh, sigmoid, fc1, addPrev, held) ==
    [kind |-> kind, input_ |-> ip,
     C |-> shape[1], H |-> shape[2], W |-> shape[3],
     use_relu_ |-> relu, use_bias_ |-> bias,
     use_tanh_ |-> tanh, use_sigmoid_ |-> sigmoid,
     numFc1Out_ |-> fc1, addPrevLayerBias_ |-> addPrev,
     ptr |-> [f \in Range(ParamFields(kind)) |-> DefaultPtr],
     conv_algo_ |-> held, alive |-> TRUE]

\* The parameter allocation of the constructor of the i-th layer object: a
\* buffer for every parameter the layer uses, the other pointers as they
\* were.
Allocate(i, l) ==
    [l EXCEPT !.ptr = [f \in DOMAIN l.ptr |->
                          IF Uses(l, f) THEN Addr(i, f) ELSE l.ptr[f]]]

\* The buffers the parameter pointers of layer object l point to.
Pointees(l) == {l.ptr[f] : f \in DOMAIN l.ptr} \ {NullPtr}

---------------------------------------------------------------------------
(* Construction *)

\* The shape a constructor hands to BaseLayer: ConvLayer and FCLayer take
\* C, H, W; GlobalAvgPoolLayer produces N x C values (H = W = 1); the
\* others take their input layer's shape.
CtorShape(kind, ip, shape) ==
    CASE kind \in {"Conv", "FC"}   -> shape
      [] kind = "GlobalAvgPool"    -> <<GetC(layers[ip]), 1, 1>>
      [] OTHER -> <<GetC(layers[ip]), GetH(layers[ip]), GetW(layers[ip])>>

Append2(seq, x) == seq \o <<x>>

Ended(op, i, res) == [op |-> op, layer |-> i, res |-> res]

\* A constructor call.  Construction is shape plus parameter allocation:
\* ok says the allocations succeed; when one fails the call ends in a
\* ResourceError and there is no layer object.
Construct(kind, ip, shape, relu, bias, tanh, sigmoid, fc1, addPrev, held, ok) ==
    /\ ip \in 0..Len(layers)
    /\ ip # 0 => layers[ip].alive
    /\ kind \notin {"Conv", "FC"} => ip # 0
    /\ ~ok => HasLoadWeights(kind)
    /\ LET i == Len(layers) + 1
           sh == CtorShape(kind, ip, shape)
           l == Allocate(i, NewLayer(kind, ip, sh, relu, bias, tanh, sigmoid,
                                     fc1, addPrev, held))
       IN  IF ok
           THEN /\ layers' = Append2(layers, l)
                /\ ctorShape' = Append2(ctorShape, sh)
                /\ devmem' = [a \in DOMAIN devmem \cup Pointees(l) |->
                                 IF a \in Pointees(l) THEN Unloaded ELSE devmem[a]]
                /\ last' = Ended("Construct", i, "ok")
           ELSE /\ last' = Ended("Construct", 0, "ResourceError")
                /\ UNCHANGED <<layers, ctorShape, devmem>>
    /\ UNCHANGED <<dtype, tensors, sizeq>>

ConstructConv(ip, shape, relu, bias, held, ok) ==
    Construct("Conv", ip, shape, relu, bias, FALSE, FALSE, 0, FALSE, held, ok)

ConstructSoftMax(ip) ==
    Construct("SoftMax", ip, <<0, 0, 0>>, FALSE, FALSE, FALSE, FALSE, 0, FALSE, NotAnAlgo, TRUE)

ConstructBN(ip, relu, ok) ==
    Construct("BN", ip, <<0, 0, 0>>, relu, FALSE, FALSE, FALSE, 0, FALSE, NotAnAlgo, ok)

ConstructFC(ip, shape, relu, bias, tanh, sigmoid, ok) ==
    Construct("FC", ip, shape, relu, bias, tanh, sigmoid, 0, FALSE, NotAnAlgo, ok)

ConstructSE(ip, fc1, addPrev, ok) ==
    Construct("SE", ip, <<0, 0, 0>>, FALSE, FALSE, FALSE, FALSE, fc1, addPrev, NotAnAlgo, ok)

ConstructGlobalAvgPool(ip) ==
    Construct("GlobalAvgPool", ip, <<0, 0, 0>>, FALSE, FALSE, FALSE, FALSE, 0, FALSE, NotAnAlgo, TRUE)

ConstructGlobalScale(ip) ==
    Construct("GlobalScale", ip, <<0, 0, 0>>, FALSE, FALSE, FALSE, FALSE, 0, FALSE, NotAnAlgo, TRUE)

---------------------------------------------------------------------------
(* Copies: the copy operations the classes declare implicitly *)

\* The classes none of whose members is const: their implicit copy
\* assignment exists.  ConvLayer, BNLayer and FCLayer have const members.
CopyAssignable(kind) == kind \in {"SoftMax", "SE", "GlobalAvgPool", "GlobalScale"}

\* BaseLayer::operator=(const BaseLayer&), reached through a BaseLayer
\* reference to layer i: the base members of layer j are stored over those
\* of layer i.
AssignBase(i, j) ==
    /\ i \in DOMAIN layers /\ j \in DOMAIN layers /\ i # j
    /\ layers[i].alive /\ layers[j].alive
    /\ layers' = [layers EXCEPT ![i].input_ = layers[j].input_,
                                 ![i].C = layers[j].C,
                                 ![i].H = layers[j].H,
                                 ![i].W = layers[j].W]
    /\ last' = Ended("Assign", i, "ok")
    /\ UNCHANGED <<dtype, ctorShape, devmem, tensors, sizeq>>

\* The implicit copy assignment of a derived class, layer i = layer j of
\* the same class: every member is stored over, the parameter pointers
\* among them; the buffers layer i held stay allocated.
Assign(i, j) ==
    /\ i \in DOMAIN layers /\ j \in DOMAIN layers /\ i # j
    /\ layers[i].alive /\ layers[j].alive
    /\ layers[i].kind = layers[j].kind
    /\ CopyAssignable(layers[i].kind)
    /\ layers' = [layers EXCEPT ![i] = layers[j]]
    /\ last' = Ended("Assign", i, "ok")
    /\ UNCHANGED <<dtype, ctorShape, devmem, tensors, sizeq>>

\* The implicit copy constructor, a new layer from layer j: every member
\* has the value of j's, the parameter pointers among them.
CopyConstruct(j) ==
    /\ j \in DOMAIN layers
    /\ layers[j].alive
    /\ layers' = Append2(layers, layers[j])
    /\ ctorShape' = Append2(ctorShape, <<GetC(layers[j]), GetH(layers[j]), GetW(layers[j])>>)
    /\ last' = Ended("Construct", Len(layers) + 1, "ok")
    /\ UNCHANGED <<dtype, devmem, tensors, sizeq>>

---------------------------------------------------------------------------
(* The life of a layer's parameters *)

\* The pointers of layer i to buffers already released (by the destructor
\* of a layer that held the same pointers).
Dangling(i) == Pointees(layers[i]) \ DOMAIN devmem

\* The device buffers the pointers of layer i reach.
Owned(i) == Pointees(layers[i]) \cap DOMAIN devmem

\* Constructed: the parameters layer i uses are allocated and no values
\* have been transferred into them.
Constructed(i) ==
    \A f \in Range(ToLoad(layers[i])) :
        /\ layers[i].ptr[f] \in DOMAIN devmem
        /\ devmem[layers[i].ptr[f]] = Unloaded

\* Loaded: every parameter layer i uses holds loaded values.
Loaded(i) ==
    \A f \in Range(ToLoad(layers[i])) :
        /\ layers[i].ptr[f] \in DOMAIN devmem
        /\ devmem[layers[i].ptr[f]] \in HostData

---------------------------------------------------------------------------
(* LoadWeights *)

\* LoadWeights on layer i with host arrays `host`, the one load of a
\* constructed layer: the host values are transferred into the parameter
\* buffers the layer uses; a ConvLayer selects its algorithm (algo is the
\* backend's answer).  A load that fails ends in a ResourceError with
\* nothing transferred.
LoadWeights(i, host, algo, res) ==
    LET l == layers[i]
        into == {l.ptr[f] : f \in Range(ToLoad(l))}
    IN  /\ i \in DOMAIN layers
        /\ l.alive
        /\ HasLoadWeights(l.kind)
        /\ Constructed(i)
        /\ res \in {"ok", "ResourceError"}
        /\ IF res = "ok"
           THEN /\ devmem' = [a \in DOMAIN devmem |->
                                 IF a \in into THEN host ELSE devmem[a]]
                /\ layers' = [layers EXCEPT ![i].conv_algo_ =
                                 IF l.kind = "Conv" THEN algo ELSE l.conv_algo_]
           ELSE UNCHANGED <<devmem, layers>>
        /\ last' = Ended("LoadWeights", i, res)
        /\ UNCHANGED <<dtype, ctorShape, tensors, sizeq>>

---------------------------------------------------------------------------
(* Destructors *)

\* The end of layer object i.  Destroyed as an object of its own class
\* (~ConvLayer(), ~BNLayer(), ~FCLayer(), ~SELayer(); the other classes
\* hold no buffers), the parameter buffers its pointers reach are released;
\* releasing a buffer a second time is an error of the backend, seen or
\* not.  Destroyed through a BaseLayer pointer (viaBase), ~BaseLayer() is
\* what runs: it is implicit and not virtual, so the class's destructor does
\* not run and the buffers stay allocated; the deallocation of the object
\* under its base type may pass or fault.
Destroy(i, viaBase, res) ==
    /\ i \in DOMAIN layers
    /\ layers[i].alive
    /\ res \in (IF viaBase THEN {"ok", "Fault"}
                ELSE IF Dangling(i) = {} THEN {"ok"}
                ELSE {"ok", "BackendError"})
    /\ layers' = [layers EXCEPT ![i].alive = FALSE]
    /\ devmem' = IF viaBase THEN devmem
                 ELSE [a \in DOMAIN devmem \ Owned(i) |-> devmem[a]]
    /\ last' = Ended("Destroy", i, res)
    /\ UNCHANGED <<dtype, ctorShape, tensors, sizeq>>

---------------------------------------------------------------------------
(* Eval *)

\* What a tensor buffer holds: the caller's data, the result of an Eval of
\* layer i for batch size N, or nothing the caller may rely on.
CallerData == <<"caller", 0, 0>>
Undefined == <<"undefined", 0, 0>>
Result(i, N) == <<"result", i, N>>

Rejected(i) == Ended("Eval", i, "UsageError")
Returned(i) == Ended("Eval", i, "ok")

\* How an Eval call on layer i may end: on a loaded layer it returns or the
\* backend reports a failure; before loading it is a usage error; through a
\* pointer to a released buffer anything the backend does with it.
EvalResults(i) ==
    IF Dangling(i) # {} THEN {"ok", "BackendError"}
    ELSE IF Loaded(i) THEN {"ok", "BackendError"}
    ELSE {"UsageError"}

\* Eval(N, output, input, input2, scratch, scratch_size, ...) on layer i,
\* from call to return; out, in and in2 are buffers of the caller, in2 = 0
\* is no skip input.  A call that returns has written the result to the
\* output buffer; the output of a failed call, and of a call that read what
\* is undefined, is undefined.  Nothing else changes.
Eval(i, N, out, in, in2, res) ==
    /\ i \in DOMAIN layers
    /\ layers[i].alive
    /\ res \in EvalResults(i)
    /\ LET defined == /\ res = "ok"
                      /\ Loaded(i)
                      /\ tensors[in] # Undefined
                      /\ in2 # 0 => tensors[in2] # Undefined
       IN  tensors' = [tensors EXCEPT ![out] =
                          IF defined THEN Result(i, N) ELSE Undefined]
    /\ last' = Ended("Eval", i, res)
    /\ UNCHANGED <<dtype, layers, ctorShape, devmem, sizeq>>

---------------------------------------------------------------------------
(* GetOutputSize, called *)

SizeDims == {1, 2, 8, 256, 65536, 2147483647}

NoQuery == [layer |-> 0, N |-> 0, result |-> <<>>]

QuerySize(i, N) ==
    /\ i \in DOMAIN layers
    /\ layers[i].alive
    /\ sizeq' = [layer |-> i, N |-> N, result |-> GetOutputSize(dtype, layers[i], N)]
    /\ UNCHANGED <<dtype, layers, ctorShape, devmem, tensors, last>>

---------------------------------------------------------------------------
(* Specifications *)

NoCall == Ended("none", 0, "ok")

Init ==
    /\ dtype = "float"
    /\ layers = <<>>
    /\ ctorShape = <<>>
    /\ devmem = <<>>
    /\ tensors = [b \in 1..NumBufs |-> CallerData]
    /\ last = NoCall
    /\ sizeq = NoQuery

\* The pipeline builder: the next layer of a chain of at most cap layers,
\* its input the layer before it (nullptr for the first).
Build(cap, shapes, flags, fc1s, helds, oks) ==
    \/ /\ Len(layers) < cap
       /\ \E shape \in shapes, relu \in flags, bias \in flags,
             held \in helds, ok \in oks :
             ConstructConv(Len(layers), shape, relu, bias, held, ok)
    \/ Len(layers) < cap /\ ConstructSoftMax(Len(layers))
    \/ /\ Len(layers) < cap
       /\ \E relu \in flags, ok \in oks : ConstructBN(Len(layers), relu, ok)
    \/ /\ Len(layers) < cap
       /\ \E shape \in shapes, act \in Activations, bias \in flags, ok \in oks :
             ConstructFC(Len(layers), shape, act[1], bias, act[2], act[3], ok)
    \/ /\ Len(layers) < cap
       /\ \E fc1 \in fc1s, addPrev \in flags, ok \in oks :
             ConstructSE(Len(layers), fc1, addPrev, ok)
    \/ Len(layers) < cap /\ ConstructGlobalAvgPool(Len(layers))
    \/ Len(layers) < cap /\ ConstructGlobalScale(Len(layers))

\* A residual tower: an input convolution, then fused SE blocks one on the
\* other.
BuildTower(cap) ==
    \/ /\ Len(layers) = 0
       /\ \E held \in Indeterminate, ok \in BOOLEAN :
             ConstructConv(0, <<2, 2, 2>>, TRUE, TRUE, held, ok)
    \/ /\ Len(layers) \in 1..(cap - 1)
       /\ \E addPrev \in BOOLEAN, ok \in BOOLEAN :
             ConstructSE(Len(layers), 1, addPrev, ok)

Load(hosts, algos) ==
    \E i \in 1..Len(layers), host \in hosts, algo \in algos,
       res \in {"ok", "ResourceError"} :
        LoadWeights(i, host, algo, res)

\* Teardown: the layers are destroyed, one at a time, each as an object
\* of its class or (viaBase) through a BaseLayer pointer.
Teardown(modes) ==
    \E i \in 1..Len(layers), viaBase \in modes,
       res \in {"ok", "BackendError", "Fault"} :
        Destroy(i, viaBase, res)

\* The caller copies a layer into a new one (while the pipeline may grow),
CopyNew(cap) == Len(layers) < cap /\ \E j \in 1..Len(layers) : CopyConstruct(j)

\* assigns one layer to another through their base class,
CopyBase == \E i, j \in 1..Len(layers) : AssignBase(i, j)

\* or assigns a layer to another of its class.
CopyAssign == \E i, j \in 1..Len(layers) : Assign(i, j)

\* The caller evaluates a layer.
Run(Ns, outs, ins, in2s) ==
    \E i \in 1..Len(layers), N \in Ns, out \in outs, in \in ins, in2 \in in2s,
       res \in {"ok", "BackendError", "UsageError"} :
        Eval(i, N, out, in, in2, res)

\* SpecPipe: the life of the layer objects, up to MaxLayers of them, of
\* every kind and shape, the last a copy: built (an allocation may fail),
\* loaded, evaluated, copied, assigned through their base class and
\* destroyed.
NextPipe ==
    \/ Build(MaxLayers - 1, Shapes, {FALSE}, {1}, Indeterminate, BOOLEAN)
    \/ Load({"hostA"}, {"gemm"})
    \/ Teardown({FALSE})
    \/ CopyNew(MaxLayers)
    \/ CopyBase
    \/ Run({1}, {NumBufs}, {1}, {0})

SpecPipe == Init /\ [][NextPipe]_vars

\* SpecTower: the life of the layers of a residual tower of up to MaxLayers
\* layers, each constructed on its own or copied, destroyed as what it is
\* or through a BaseLayer pointer.
NextTower ==
    \/ BuildTower(MaxLayers)
    \/ Load(HostData, {"gemm"})
    \/ Teardown(BOOLEAN)
    \/ CopyNew(MaxLayers)
    \/ CopyAssign
    \/ Run(1..MaxBatch, {NumBufs}, {1}, {0, NumBufs})

SpecTower == Init /\ [][NextTower]_vars

\* SpecSize: one layer of any int shape, asked for its output size.
InitSize ==
    /\ dtype \in DataTypes
    /\ \E c \in SizeDims, h \in SizeDims, w \in SizeDims, held \in Indeterminate :
          /\ layers = <<Allocate(1, NewLayer("Conv", 0, <<c, h, w>>, FALSE, FALSE,
                                             FALSE, FALSE, 0, FALSE, held))>>
          /\ ctorShape = <<(<<c, h, w>>)>>
    /\ devmem = [a \in {Addr(1, "weights")} |-> Unloaded]
    /\ tensors = [b \in 1..NumBufs |-> CallerData]
    /\ last = Ended("Construct", 1, "ok")
    /\ sizeq = NoQuery

NextSize == \E N \in SizeDims : QuerySize(1, N)

SpecSize == InitSize /\ [][NextSize]_vars

---------------------------------------------------------------------------
(* Properties *)

\* sizeof(DataType) * N * C * H * W as a natural number, never reduced.
ExactSize(t, l, N) ==
    MulMod(MulMod(MulMod(MulMod(IntToWide(SizeOf(t)), IntToWide(N), WideBytes),
                         IntToWide(l.C), WideBytes),
                  IntToWide(l.H), WideBytes),
           IntToWide(l.W), WideBytes)

Asked == sizeq.layer # 0
AskedExact == ExactSize(dtype, layers[sizeq.layer], sizeq.N)

\* C1 as stated: for every declared shape and every N >= 1, GetOutputSize(N)
\* is exactly elementSize * N * C * H * W.
C1_SizeExact ==
    Asked => Extend(sizeq.result, WideBytes) = AskedExact

\* C1, amended: GetOutputSize(N) is elementSize * N * C * H * W reduced
\* modulo 2^64 (the product is formed in size_t, so nothing is lost at the
\* int range of N, C, H, W); it is the exact product whenever that product
\* is below 2^64.
C1_SizeModulo ==
    Asked =>
        /\ sizeq.result = Truncate(AskedExact, SizeTBytes)
        /\ FitsIn(AskedExact, SizeTBytes) =>
              Extend(sizeq.result, WideBytes) = AskedExact

\* A size past the int range and within size_t, returned exactly.
C1_PastIntRange ==
    /\ Asked
    /\ ~FitsIn(AskedExact, IntBytes)
    /\ FitsIn(AskedExact, SizeTBytes)
    /\ Extend(sizeq.result, WideBytes) = AskedExact

Shape(l) == <<GetC(l), GetH(l), GetW(l)>>

C4_ShapeFixed ==
    \A i \in DOMAIN layers : layers[i].alive => Shape(layers[i]) = ctorShape[i]

====
